---- MODULE Spec2Model ----
(***************************************************************************)
(* just-shell (src/src/main.rs): an interactive prompt over the rules of a *)
(* justfile.  The model covers                                             *)
(*   - Justfile::matches and Justfile::best_match (fuzzy ranking/dispatch),*)
(*   - MyHinter::hint (the rendered hint string),                          *)
(*   - the loop of main (readline, dispatch, run, history).                *)
(* Strings are sequences of one-character strings; every index that the    *)
(* program exposes (match positions, cursor position) is 0-based as in the *)
(* source.  Option<T> is a sequence of length 0 (None) or 1 (Some).        *)
(***************************************************************************)
EXTENDS Integers, Sequences, FiniteSets, TLC

VARIABLES
    rules,      \* Justfile.rules, fixed after read()                (l.112)
    pc,         \* position of main / of the function driver
    line,       \* the line returned by rl.readline, or hint's `line` argument
    pos,        \* hint's `pos` argument (cursor)
    ranked,     \* the Vec returned by matches(line) inside hint     (l.74)
    hintOut,    \* Option<String> returned by hint (last hint displayed)
    token,      \* Option<&str> handed to best_match                (l.136)
    rule,       \* Option<&Rule> returned by best_match (index into rules)
    argv,       \* argument vector the runner was spawned with     (l.205-207)
    status,     \* Option<ExitStatus> of the last child             (l.138)
    reported,   \* Option<code> printed by the eprintln! of l.142-145
    history,    \* the entries of rl's DefaultHistory
    okLines     \* history variable: the lines whose child exited with success

vars == <<rules, pc, line, pos, ranked, hintOut, token, rule, argv, status,
          reported, history, okLines>>

None == <<>>
Some(x) == <<x>>
IsSome(o) == Len(o) = 1
Unwrap(o) == o[1]

Min(a, b) == IF a < b THEN a ELSE b

(***************************************************************************)
(* Bounds of the model.                                                    *)
(***************************************************************************)
MaxLen == 2      \* longest line over Alphabet typed at the prompt
MaxRules == 3    \* longest catalog drawn freely over Names
MaxPos == 21     \* longest line typed against the long rule name
MaxOk == 2       \* successful dispatches followed in one run of the loop

(***************************************************************************)
(* Characters.                                                             *)
(***************************************************************************)
Alphabet == {"a", "b", "A", "_", " "}

is_whitespace(c) == c = " "

is_uppercase(c) == c = "A"

to_ascii_lowercase(c) == IF c = "A" THEN "a" ELSE c

\* char::eq_ignore_ascii_case
eq_ignore_ascii_case(a, b) == to_ascii_lowercase(a) = to_ascii_lowercase(b)

(***************************************************************************)
(* The matcher: Matcher = SkimMatcherV2, built by Matcher::default()       *)
(* (l.10, l.33), i.e. smart case: the comparison is case-sensitive exactly *)
(* when the pattern contains an uppercase character.                       *)
(***************************************************************************)
contains_upper(pattern) == \E k \in 1..Len(pattern) : is_uppercase(pattern[k])

char_equal(a, b, case_sensitive) ==
    IF case_sensitive THEN a = b ELSE eq_ignore_ascii_case(a, b)

\* All alignments of pattern[k..] on choice[from..]: strictly increasing
\* 1-based index sequences whose characters match the pattern in order.
RECURSIVE Alignments(_, _, _, _, _)
Alignments(choice, pattern, cs, k, from) ==
    IF k > Len(pattern) THEN {<<>>}
    ELSE UNION { { <<i>> \o rest :
                     rest \in Alignments(choice, pattern, cs, k + 1, i + 1) } :
                 i \in { i \in from..Len(choice) :
                           char_equal(choice[i], pattern[k], cs) } }

\* Score configuration (SkimScoreConfig::default()).
score_match == 16
gap_start == -3
gap_extension == -1
bonus_first_char_multiplier == 2
bonus_head == score_match \div 2
bonus_break == score_match \div 2 + gap_extension
bonus_camel == score_match \div 2 + 2 * gap_extension
bonus_consecutive == -(gap_start + gap_extension)
penalty_case_mismatch == gap_extension * 2

GapPenalty(n) == IF n <= 0 THEN 0 ELSE gap_start + (n - 1) * gap_extension

\* Positional bonus of matching choice[i]: head of the name, after a
\* separator, or a lower-to-upper (camel) transition.
PositionBonus(choice, i) ==
    IF i = 1 THEN bonus_head
    ELSE IF choice[i - 1] \in {"_", " "} THEN bonus_break
    ELSE IF ~is_uppercase(choice[i - 1]) /\ is_uppercase(choice[i]) THEN bonus_camel
    ELSE 0

\* Score of one alignment al (1-based indices) of pattern on choice.
RECURSIVE AlignmentScore(_, _, _, _)
AlignmentScore(choice, pattern, al, k) ==
    IF k > Len(al) THEN GapPenalty(Len(choice) - (IF Len(al) = 0 THEN 0 ELSE al[Len(al)]))
    ELSE LET i == al[k]
             prev == IF k = 1 THEN 0 ELSE al[k - 1]
             bonus == PositionBonus(choice, i)
             here == score_match
                     + (IF k = 1 THEN bonus * bonus_first_char_multiplier ELSE bonus)
                     + (IF k > 1 /\ i = prev + 1 THEN bonus_consecutive ELSE 0)
                     + (IF choice[i] # pattern[k] THEN penalty_case_mismatch ELSE 0)
                     + GapPenalty(i - prev - 1)
         IN here + AlignmentScore(choice, pattern, al, k + 1)

\* Lexicographic order on index sequences of equal length.
RECURSIVE LexLess(_, _, _)
LexLess(a, b, k) ==
    IF k > Len(a) THEN FALSE
    ELSE IF a[k] # b[k] THEN a[k] < b[k]
    ELSE LexLess(a, b, k + 1)

\* SkimMatcherV2::fuzzy_indices(choice, pattern): None when the pattern is
\* not an ordered subsequence of the choice; Some((0, [])) for the empty
\* pattern; otherwise the best-scoring alignment (the earliest one among
\* equals) with its score.  Indices are 0-based character indices.
Preferred(sa, a, sb, b) == sa > sb \/ (sa = sb /\ (a = b \/ LexLess(a, b, 1)))

BestAlignment(choice, pattern, als) ==
    CHOOSE a \in als :
      \A b \in als : Preferred(AlignmentScore(choice, pattern, a, 1), a,
                               AlignmentScore(choice, pattern, b, 1), b)

MatchOf(choice, pattern, best) ==
    Some([score |-> AlignmentScore(choice, pattern, best, 1),
          indices |-> [k \in 1..Len(best) |-> best[k] - 1]])

MatchAmong(choice, pattern, als) ==
    IF als = {} THEN None
    ELSE MatchOf(choice, pattern, BestAlignment(choice, pattern, als))

fuzzy_indices(choice, pattern) ==
    IF Len(pattern) = 0 THEN Some([score |-> 0, indices |-> <<>>])
    ELSE MatchAmong(choice, pattern,
                    Alignments(choice, pattern, contains_upper(pattern), 1, 1))

\* Option::map(|(score, _)| score)
ScoreOnly(r) == IF IsSome(r) THEN Some(Unwrap(r).score) ELSE None

\* SkimMatcherV2::fuzzy_match: the score of fuzzy_indices.
fuzzy_match(choice, pattern) == ScoreOnly(fuzzy_indices(choice, pattern))

(***************************************************************************)
(* impl Justfile (l.36-63).  A &Rule is the rule's index in rules.         *)
(***************************************************************************)
\* Collect with map in place of filter_map: a rule the matcher rejects stays
\* in the list with score 0 and no indices.
Entry_all(i, m) ==
    <<[rule |-> i,
       score |-> IF IsSome(m) THEN Unwrap(m).score ELSE 0,
       indices |-> IF IsSome(m) THEN Unwrap(m).indices ELSE <<>>]>>

RECURSIVE Collect_all(_, _, _)
Collect_all(rs, pattern, i) ==
    IF i > Len(rs) THEN <<>>
    ELSE Entry_all(i, fuzzy_indices(rs[i].name, pattern))
         \o Collect_all(rs, pattern, i + 1)

\* l.39-43: rules.iter().filter_map(..).collect(): the rules the matcher
\* accepts, in catalog order, each with its (score, indices).
\* l.42: Some((r, m?)): the entry of rule i, or nothing when m is None.
Entry(i, m) ==
    IF IsSome(m)
      THEN <<[rule |-> i, score |-> Unwrap(m).score, indices |-> Unwrap(m).indices]>>
      ELSE <<>>

RECURSIVE Collect(_, _, _)
Collect(rs, pattern, i) ==
    IF i > Len(rs) THEN <<>>
    ELSE Entry(i, fuzzy_indices(rs[i].name, pattern)) \o Collect(rs, pattern, i + 1)

\* The sort key without the negation: ascending scores.
SortKey_asc(m) == m.score

\* l.44: the sort key of an entry.
SortKey(m) == -m.score

\* SortKey is defined; an insertion that puts e in front of its equals.
RECURSIVE InsertByKey_unstable(_, _)
InsertByKey_unstable(sorted, e) ==
    IF Len(sorted) = 0 THEN <<e>>
    ELSE IF SortKey(e) <= SortKey(Head(sorted)) THEN <<e>> \o sorted
    ELSE <<Head(sorted)>> \o InsertByKey_unstable(Tail(sorted), e)

\* One step of a stable sort by key: e goes behind every element whose key
\* is not greater than its own.
RECURSIVE InsertByKey(_, _)
InsertByKey(sorted, e) ==
    IF Len(sorted) = 0 THEN <<e>>
    ELSE IF SortKey(e) < SortKey(Head(sorted)) THEN <<e>> \o sorted
    ELSE <<Head(sorted)>> \o InsertByKey(Tail(sorted), e)

\* slice::sort_by_key over the first n elements of s: stable.
RECURSIVE sort_by_key(_, _)
sort_by_key(s, n) ==
    IF n = 0 THEN <<>>
    ELSE InsertByKey(sort_by_key(s, n - 1), s[n])

\* Justfile::matches (l.37-47).
SortAll(collected) == sort_by_key(collected, Len(collected))

matches(rs, pattern) == SortAll(Collect(rs, pattern, 1))

\* The scan with a maximum that keeps the first of several equal elements.
MaxStep_first(acc, m, i) ==
    IF IsSome(m) /\ (~IsSome(acc) \/ Unwrap(m) > Unwrap(acc).score)
      THEN Some([score |-> Unwrap(m), rule |-> i])
      ELSE acc

RECURSIVE RevMaxByKey_first(_, _, _, _)
RevMaxByKey_first(rs, pattern, i, acc) ==
    IF i = 0 THEN acc
    ELSE RevMaxByKey_first(rs, pattern, i - 1,
                           MaxStep_first(acc, fuzzy_match(rs[i].name, pattern), i))

\* l.54-59: rules.iter().rev().filter_map(..).max_by_key(score): the scan
\* runs from the last rule to the first and, as Iterator::max_by_key
\* returns the last of several equally maximum elements, a rule replaces
\* the running maximum when its score is not smaller.
MaxStep(acc, m, i) ==
    IF IsSome(m) /\ (~IsSome(acc) \/ Unwrap(m) >= Unwrap(acc).score)
      THEN Some([score |-> Unwrap(m), rule |-> i])
      ELSE acc

RECURSIVE RevMaxByKey(_, _, _, _)
RevMaxByKey(rs, pattern, i, acc) ==
    IF i = 0 THEN acc
    ELSE RevMaxByKey(rs, pattern, i - 1,
                     MaxStep(acc, fuzzy_match(rs[i].name, pattern), i))

\* l.54, l.60: let (_score, rule) = ..?; Some(rule)
RuleOnly(r) == IF IsSome(r) THEN Some(Unwrap(r).rule) ELSE None

\* best_match with rules.last() as the default rule.
best_match_last(rs, tok) ==
    LET pattern == IF IsSome(tok) THEN Unwrap(tok) ELSE <<>>
    IN IF Len(pattern) = 0
         THEN (IF Len(rs) > 0 THEN Some(Len(rs)) ELSE None)
         ELSE RuleOnly(RevMaxByKey(rs, pattern, Len(rs), None))

\* Justfile::best_match (l.48-62): tok is an Option<&str>.
best_match(rs, tok) ==
    LET pattern == IF IsSome(tok) THEN Unwrap(tok) ELSE <<>>
    IN IF Len(pattern) = 0
         THEN (IF Len(rs) > 0 THEN Some(1) ELSE None)
         ELSE RuleOnly(RevMaxByKey(rs, pattern, Len(rs), None))

(***************************************************************************)
(* impl Hinter for MyHinter (l.70-108).  The hint is a sequence of cells:  *)
(* a character and the style colored wraps it in.                          *)
(***************************************************************************)
HintLimit == 10     \* l.81
TabWidth == 10      \* l.105

Cell(c, st) == [ch |-> c, style |-> st]

Plain(str) == [k \in 1..Len(str) |-> Cell(str[k], "plain")]

\* l.85-101: the name of one candidate, character by character; j counts
\* the match positions consumed so far.
RECURSIVE RenderName(_, _, _, _, _)
RenderName(name, match_positions, first, i, j) ==
    IF i >= Len(name) THEN <<>>
    ELSE IF j < Len(match_positions) /\ match_positions[j + 1] = i
      THEN <<Cell(name[i + 1], IF first THEN "bold_underline_green"
                                        ELSE "bold_underline")>>
           \o RenderName(name, match_positions, first, i + 1, j + 1)
      ELSE <<Cell(name[i + 1], IF first THEN "bold_green" ELSE "plain")>>
           \o RenderName(name, match_positions, first, i + 1, j)

\* l.79-103: the listing s over matches[..matches.len().min(10)].
RECURSIVE RenderListing(_, _, _, _)
RenderListing(rs, ms, k, n) ==
    IF k > n THEN <<>>
    ELSE (IF k > 1 THEN Plain(<<",", " ">>) ELSE <<>>)
         \o RenderName(rs[ms[k].rule].name, ms[k].indices, k = 1, 0, 0)
         \o RenderListing(rs, ms, k + 1, n)

\* Rounding that moves a multiple of m to the next one.
next_multiple_of_up(n, m) == (n \div m) * m + m

\* usize::next_multiple_of
next_multiple_of(n, m) == ((n + m - 1) \div m) * m

Spaces(n) == [k \in 1..n |-> " "]

\* l.106: format!(" {:>padding$}({s})", "", padding = padding)
Format(padding, s) ==
    Plain(<<" ">>) \o Plain(Spaces(padding)) \o Plain(<<"(">>) \o s \o Plain(<<")">>)

\* l.75-106 on the list ms that matches returned, showing at most limit
\* candidates.
HintOf(rs, ms, limit, p) ==
    IF Len(ms) = 0 THEN None
    ELSE Some(Format(next_multiple_of(p + 1, TabWidth) - p,
                     RenderListing(rs, ms, 1, Min(Len(ms), limit))))

\* hint over the whole of matches, without the slice of l.81.
hint_unlimited(rs, ln, p) ==
    HintOf(rs, matches(rs, ln), HintLimit + Len(rs), p)

\* MyHinter::hint (l.73-107).
hint(rs, ln, p) == HintOf(rs, matches(rs, ln), HintLimit, p)

(***************************************************************************)
(* main (l.110-148) and run (l.200-212).                                   *)
(***************************************************************************)
\* str::split_whitespace: the maximal runs of non-whitespace characters.
RECURSIVE SplitFrom(_, _, _)
SplitFrom(str, i, cur) ==
    IF i > Len(str) THEN (IF Len(cur) > 0 THEN <<cur>> ELSE <<>>)
    ELSE IF is_whitespace(str[i])
      THEN (IF Len(cur) > 0 THEN <<cur>> ELSE <<>>) \o SplitFrom(str, i + 1, <<>>)
      ELSE SplitFrom(str, i + 1, Append(cur, str[i]))

split_whitespace(str) == SplitFrom(str, 1, <<>>)

\* Iterator::next on the token iterator: (Option<first>, remaining tokens).
NextToken(toks) == IF Len(toks) = 0 THEN None ELSE Some(Head(toks))
RestTokens(toks) == IF Len(toks) = 0 THEN <<>> ELSE Tail(toks)

\* std::process::ExitStatus as the loop observes it: success() and code().
\* A child that a signal terminated has no code.
Exited(c) == [success |-> c = 0, code |-> Some(c)]
Signaled == [success |-> FALSE, code |-> None]
ExitCodes == {0, 1, 2}
ExitStatuses == { Exited(c) : c \in ExitCodes } \cup {Signaled}

\* rustyline's DefaultHistory under Editor::new()'s default Config (l.115):
\* at most max_history_size entries, consecutive duplicates ignored, lines
\* with a leading space kept.
max_history_size == 100
history_ignore_dups == TRUE
history_ignore_space == FALSE

\* History::ignore: the entry is dropped without being stored.
history_ignore(h, ln) ==
    \/ max_history_size = 0
    \/ Len(ln) = 0
    \/ history_ignore_space /\ is_whitespace(ln[1])
    \/ history_ignore_dups /\ Len(h) > 0 /\ h[Len(h)] = ln

\* Editor::add_history_entry (l.140).
add_history_entry(h, ln) ==
    IF history_ignore(h, ln) THEN h
    ELSE IF Len(h) = max_history_size THEN Append(Tail(h), ln)
    ELSE Append(h, ln)

ExitCodeMessage(c) == [kind |-> "exit code", code |-> c]
ErrorMessage == [kind |-> "Error", code |-> 0]

(***************************************************************************)
(* Inputs.                                                                 *)
(***************************************************************************)
Seqs(S, n) == UNION { [1..k -> S] : k \in 0..n }

Rule(name, args) == [name |-> name, args |-> args]

NameSet == { <<"a">>, <<"a", "b">>, <<"b", "a">>, <<"A", "b">>, <<"a", "_", "b">> }

NameCycle == << <<"a", "b">>, <<"b", "a">>, <<"a">>, <<"A", "b">>, <<"a", "_", "b">> >>

LongAlpha == << "a", "b", "c", "d", "e", "f", "g", "h", "i", "j", "k", "l", "m",
                "n", "o", "p", "q", "r", "s", "t", "u", "v", "w", "x", "y", "z" >>

LongName == SubSeq(LongAlpha, 1, MaxPos)

\* A catalog of n rules, more than the hint shows when n > HintLimit.
BigCatalog(n) ==
    [k \in 1..n |-> Rule(NameCycle[((k - 1) % Len(NameCycle)) + 1],
                         IF k % 2 = 0 THEN <<"target">> ELSE <<>>)]

FreeCatalogs ==
    { [k \in 1..Len(f) |-> Rule(f[k], <<>>)] : f \in Seqs(NameSet, MaxRules) }

Catalogs ==
    FreeCatalogs
    \cup { BigCatalog(n) : n \in (HintLimit - 1)..(HintLimit + 2) }
    \cup { << Rule(<<"a">>, <<>>), Rule(LongName, <<"arg">>) >> }

Lines == Seqs(Alphabet, MaxLen) \cup { SubSeq(LongName, 1, k) : k \in 0..MaxPos }

LoopCatalogs ==
    { <<>>,
      << Rule(<<"a">>, <<>>) >>,
      << Rule(<<"a", "b">>, <<>>), Rule(<<"b", "a">>, <<"target">>) >>,
      << Rule(<<"b", "a">>, <<>>), Rule(<<"a", "b">>, <<>>), Rule(<<"a", "b">>, <<>>) >>,
      << Rule(<<"A", "b">>, <<>>), Rule(<<"a", "_", "b">>, <<>>), Rule(<<"a", "b">>, <<>>) >> }

LoopLines ==
    { <<>>, <<"a">>, <<"b">>, <<"A">>, <<" ">>, <<"a", "b">>, <<"b", " ", "a">>,
      <<" ", "a">> }

(***************************************************************************)
(* The interactive loop.                                                   *)
(***************************************************************************)
Init ==
    /\ rules \in LoopCatalogs
    /\ pc = "AwaitingLine"
    /\ line = <<>>
    /\ pos = 0
    /\ ranked = <<>>
    /\ hintOut = None
    /\ token = None
    /\ rule = None
    /\ argv = <<>>
    /\ status = None
    /\ reported = <<>>
    /\ history = <<>>
    /\ okLines = <<>>

\* l.124-126: rl.readline returns Ok(line); while the line was edited the
\* helper's hint ran, last with the submitted line and the cursor at p.
Readline(ln, p) ==
    /\ pc = "AwaitingLine"
    /\ Len(okLines) < MaxOk
    /\ line' = ln
    /\ pos' = p
    /\ ranked' = matches(rules, ln)
    /\ hintOut' = hint(rules, ln, p)
    /\ token' = None
    /\ rule' = None
    /\ argv' = <<>>
    /\ status' = None
    /\ reported' = <<>>
    /\ pc' = "Dispatching"
    /\ UNCHANGED <<rules, history, okLines>>

\* l.127-129: Err(Interrupted | Eof) => break.
ReadlineEnd ==
    /\ pc = "AwaitingLine"
    /\ pc' = "Terminated"
    /\ reported' = <<>>
    /\ UNCHANGED <<rules, line, pos, ranked, hintOut, token, rule, argv, status,
                   history, okLines>>

\* l.130-133: any other Err is printed, then break.
ReadlineError ==
    /\ pc = "AwaitingLine"
    /\ pc' = "Terminated"
    /\ reported' = <<ErrorMessage>>
    /\ UNCHANGED <<rules, line, pos, ranked, hintOut, token, rule, argv, status,
                   history, okLines>>

\* l.135-136 and run's spawn (l.205-209): the first token is resolved, the
\* Option is unwrapped, and the runner is spawned with the rule's name and
\* the remaining tokens.  Unwrapping None panics.
Dispatch ==
    /\ pc = "Dispatching"
    /\ \E toks \in {split_whitespace(line)} :
         \E r \in {best_match(rules, NextToken(toks))} :
           /\ token' = NextToken(toks)
           /\ rule' = r
           /\ IF IsSome(r)
                THEN /\ argv' = <<rules[Unwrap(r)].name>> \o RestTokens(toks)
                     /\ pc' = "Running"
                ELSE /\ argv' = <<>>
                     /\ pc' = "Panicked"
    /\ UNCHANGED <<rules, line, pos, ranked, hintOut, status, reported, history,
                   okLines>>

\* l.136 followed by l.208-209: the rule resolves but spawn returns Err
\* (no runner executable), which unwrap turns into a panic.
DispatchSpawnFails ==
    /\ pc = "Dispatching"
    /\ \E toks \in {split_whitespace(line)} :
         \E r \in {best_match(rules, NextToken(toks))} :
           /\ IsSome(r)
           /\ token' = NextToken(toks)
           /\ rule' = r
    /\ pc' = "Panicked"
    /\ UNCHANGED <<rules, line, pos, ranked, hintOut, argv, status, reported,
                   history, okLines>>

\* ChildExit with the history entry added whatever the status.
ChildExit_always(st) ==
    /\ pc = "Running"
    /\ status' = Some(st)
    /\ history' = add_history_entry(history, line)
    /\ IF st.success
         THEN /\ okLines' = Append(okLines, line)
              /\ reported' = reported
              /\ pc' = "AwaitingLine"
         ELSE IF IsSome(st.code)
           THEN /\ reported' = <<ExitCodeMessage(Unwrap(st.code))>>
                /\ pc' = "AwaitingLine"
                /\ UNCHANGED okLines
           ELSE /\ pc' = "Panicked"
                /\ UNCHANGED <<reported, okLines>>
    /\ UNCHANGED <<rules, line, pos, ranked, hintOut, token, rule, argv>>

\* l.210-211 and l.139-146: wait returns the child's status st; on success
\* the line goes to the history, otherwise the code is unwrapped and
\* printed.  Unwrapping the code of a signalled child panics.
ChildExit(st) ==
    /\ pc = "Running"
    /\ status' = Some(st)
    /\ IF st.success
         THEN /\ history' = add_history_entry(history, line)
              /\ okLines' = Append(okLines, line)
              /\ reported' = reported
              /\ pc' = "AwaitingLine"
         ELSE IF IsSome(st.code)
           THEN /\ reported' = <<ExitCodeMessage(Unwrap(st.code))>>
                /\ pc' = "AwaitingLine"
                /\ UNCHANGED <<history, okLines>>
           ELSE /\ pc' = "Panicked"
                /\ UNCHANGED <<reported, history, okLines>>
    /\ UNCHANGED <<rules, line, pos, ranked, hintOut, token, rule, argv>>

Next ==
    \/ \E ln \in LoopLines : \E p \in 0..Len(ln) : Readline(ln, p)
    \/ ReadlineEnd
    \/ ReadlineError
    \/ Dispatch
    \/ DispatchSpawnFails
    \/ \E st \in ExitStatuses : ChildExit(st)

Spec == Init /\ [][Next]_vars

(***************************************************************************)
(* The functions on their own: one call of matches, best_match or hint on  *)
(* inputs drawn from Catalogs and Lines.                                   *)
(***************************************************************************)
InitFn ==
    /\ rules \in Catalogs
    /\ pc = "call"
    /\ line = <<>>
    /\ pos = 0
    /\ ranked = <<>>
    /\ hintOut = None
    /\ token = None
    /\ rule = None
    /\ argv = <<>>
    /\ status = None
    /\ reported = <<>>
    /\ history = <<>>
    /\ okLines = <<>>

CallMatches(pattern) ==
    /\ pc = "call"
    /\ line' = pattern
    /\ ranked' = matches(rules, pattern)
    /\ pc' = "matches"
    /\ UNCHANGED <<rules, pos, hintOut, token, rule, argv, status, reported,
                   history, okLines>>

CallBestMatch(tok) ==
    /\ pc = "call"
    /\ token' = tok
    /\ rule' = best_match(rules, tok)
    /\ pc' = "best_match"
    /\ UNCHANGED <<rules, line, pos, ranked, hintOut, argv, status, reported,
                   history, okLines>>

CallHint(ln, p) ==
    /\ pc = "call"
    /\ line' = ln
    /\ pos' = p
    /\ ranked' = matches(rules, ln)
    /\ hintOut' = hint(rules, ln, p)
    /\ pc' = "hint"
    /\ UNCHANGED <<rules, token, rule, argv, status, reported, history, okLines>>

NextFn ==
    \/ \E pattern \in Lines : CallMatches(pattern)
    \/ \E tok \in {None} \cup { Some(t) : t \in Lines } : CallBestMatch(tok)
    \/ \E ln \in Lines : \E p \in 0..Len(ln) : CallHint(ln, p)

SpecFn == InitFn /\ [][NextFn]_vars

(***************************************************************************)
(* Properties.  Helper operators read the observable values (the hint      *)
(* string, the history) back; they are not part of the program.            *)
(***************************************************************************)
Last(sq) == sq[Len(sq)]

NoWhitespace(str) == \A k \in 1..Len(str) : ~is_whitespace(str[k])

\* The first whitespace-delimited token of the line, if any.
FirstToken(str) == NextToken(split_whitespace(str))

\* The status observed for the current line.
Succeeded == IsSome(status) /\ Unwrap(status).success

\* Number of space characters at the front of a hint string.
RECURSIVE LeadingSpaces(_, _)
LeadingSpaces(h, k) ==
    IF k > Len(h) \/ h[k].ch # " " THEN 0 ELSE 1 + LeadingSpaces(h, k + 1)

\* The least multiple of 10 that is not below n.
RoundedUp(n) == CHOOSE m \in n..(n + 9) : m % 10 = 0

\* The names listed between the parentheses of a hint string, split at
\* the ", " separators.
RECURSIVE SplitListing(_, _, _)
SplitListing(chars, i, cur) ==
    IF i > Len(chars) THEN <<cur>>
    ELSE IF chars[i] = "," /\ i < Len(chars) /\ chars[i + 1] = " "
      THEN <<cur>> \o SplitListing(chars, i + 2, <<>>)
      ELSE SplitListing(chars, i + 1, Append(cur, chars[i]))

ListedNames(h) ==
    LET open == LeadingSpaces(h, 1) + 1
    IN IF open > Len(h) \/ h[open].ch # "(" \/ h[Len(h)].ch # ")" THEN <<>>
       ELSE SplitListing([k \in 1..(Len(h) - open - 1) |-> h[open + k].ch], 1, <<>>)

\* The characters the hint shows in the accent colour: the best candidate.
RECURSIVE GreenChars(_, _)
GreenChars(h, k) ==
    IF k > Len(h) THEN <<>>
    ELSE (IF h[k].style \in {"bold_green", "bold_underline_green"}
            THEN <<h[k].ch>> ELSE <<>>) \o GreenChars(h, k + 1)

\* A sequence of lines without its empty lines and without the lines that
\* repeat the line kept just before them.
RECURSIVE Squeeze(_, _, _)
Squeeze(sq, k, acc) ==
    IF k > Len(sq) THEN acc
    ELSE IF Len(sq[k]) = 0 \/ (Len(acc) > 0 /\ Last(acc) = sq[k])
      THEN Squeeze(sq, k + 1, acc)
      ELSE Squeeze(sq, k + 1, Append(acc, sq[k]))

LastN(sq, n) == IF Len(sq) <= n THEN sq ELSE SubSeq(sq, Len(sq) - n + 1, Len(sq))

\* The rules of the catalog that fuzzy-match q, and their scores.
Matching(q) == { i \in 1..Len(rules) : IsSome(fuzzy_match(rules[i].name, q)) }
ScoreOf(i, q) == Unwrap(fuzzy_match(rules[i].name, q))

(* C1: a submitted line whose first token matches no rule (best_match      *)
(* returns None) does not crash the loop: the runner is not spawned and    *)
(* the loop is back at the prompt.                                         *)
C1_NoMatchReturnsToPrompt ==
    [][(pc = "Dispatching" /\ ~IsSome(best_match(rules, FirstToken(line))))
         => (pc' = "AwaitingLine" /\ argv' = <<>>)]_vars

(* C2 as stated: when the child exits with success the history gains       *)
(* exactly one entry equal to the submitted line; when it exits with a     *)
(* nonzero code the history is unchanged and the code is reported; so the  *)
(* history is the sequence of the lines whose child exited with success.   *)
C2_HistoryIsSuccessfulLines ==
    /\ [](history = okLines)
    /\ [][(pc = "Running" /\ pc' # "Running")
            => /\ Unwrap(status').success => history' = Append(history, line)
               /\ (~Unwrap(status').success /\ IsSome(Unwrap(status').code))
                    => /\ history' = history
                       /\ reported' = <<ExitCodeMessage(Unwrap(Unwrap(status').code))>>]_vars

(* C2 amended: on success the history gains one entry equal to the line    *)
(* unless the line is empty or equals the newest entry, in which case it   *)
(* is unchanged; a history of 100 entries drops its oldest entry for the   *)
(* one it gains.  On a nonzero code the history is unchanged and the code  *)
(* is reported.  The history is the sequence of successful lines without   *)
(* empty lines and immediate repeats, cut to its last 100 entries.         *)
C2_HistoryIsSqueezedSuccessfulLines ==
    /\ [](history = LastN(Squeeze(okLines, 1, <<>>), max_history_size))
    /\ [][(pc = "Running" /\ pc' # "Running")
            => /\ Unwrap(status').success
                    => IF Len(line) = 0 \/ (Len(history) > 0 /\ Last(history) = line)
                         THEN history' = history
                         ELSE /\ Last(history') = line
                              /\ IF Len(history) < max_history_size
                                   THEN history' = Append(history, line)
                                   ELSE history' = Append(Tail(history), line)
               /\ (~Unwrap(status').success /\ IsSome(Unwrap(status').code))
                    => /\ history' = history
                       /\ reported' = <<ExitCodeMessage(Unwrap(Unwrap(status').code))>>]_vars

\* C2 witness: back at the prompt after a successful child whose line was
\* not stored, with an earlier line stored.
C2_Witness ==
    /\ pc = "AwaitingLine"
    /\ Succeeded
    /\ Len(history) = 1
    /\ Len(okLines) = 2
    /\ Last(okLines) = Last(history)

(* C3: whatever unsuccessful status the child ends with, with or without a *)
(* numeric code, the loop withholds the history entry and is back at the   *)
(* prompt; it never ends because of the child's status.                    *)
C3_FailureReturnsToPrompt ==
    [][(pc = "Running" /\ pc' # "Running" /\ ~Unwrap(status').success)
         => (pc' = "AwaitingLine" /\ history' = history)]_vars

(* C4: best_match with an absent or empty token returns the first rule of  *)
(* the catalog when there is one and None when the catalog is empty,       *)
(* whatever the names and scores of the rules are.                         *)
C4_DefaultRule ==
    (pc = "best_match" /\ (token = None \/ token = Some(<<>>)))
      => rule = (IF Len(rules) > 0 THEN Some(1) ELSE None)

\* C4 witness: the empty token resolved against several rules.
C4_Witness ==
    /\ pc = "best_match"
    /\ token = Some(<<>>)
    /\ Len(rules) > 1
    /\ rule = Some(1)

(* C5: best_match with a non-empty token returns a rule whose score is the *)
(* maximum over the rules that fuzzy-match the token and, among the rules  *)
(* of that score, the earliest of the catalog.                             *)
C5_BestMatchMaxEarliest ==
    (pc = "best_match" /\ IsSome(token) /\ Len(Unwrap(token)) > 0
       /\ Matching(Unwrap(token)) # {})
      => LET q == Unwrap(token)
         IN /\ IsSome(rule)
            /\ Unwrap(rule) \in Matching(q)
            /\ \A i \in Matching(q) :
                 /\ ScoreOf(i, q) <= ScoreOf(Unwrap(rule), q)
                 /\ ScoreOf(i, q) = ScoreOf(Unwrap(rule), q) => Unwrap(rule) <= i

\* C5 witness: two rules of different names share the maximum and a rule
\* of a smaller score precedes them.
C5_Witness ==
    /\ pc = "best_match"
    /\ IsSome(token) /\ Len(Unwrap(token)) > 0
    /\ IsSome(rule)
    /\ LET q == Unwrap(token)
       IN /\ \E i \in Matching(q) :
               /\ i > Unwrap(rule)
               /\ ScoreOf(i, q) = ScoreOf(Unwrap(rule), q)
               /\ rules[i].name # rules[Unwrap(rule)].name
          /\ \E i \in Matching(q) :
               i < Unwrap(rule) /\ ScoreOf(i, q) < ScoreOf(Unwrap(rule), q)

(* C6: the list matches returns is sorted by descending score, and two     *)
(* entries of equal score keep their catalog order.                        *)
C6_RankedSortedStable ==
    (pc \in {"matches", "hint"})
      => \A i, j \in 1..Len(ranked) :
           i < j => /\ ranked[i].score >= ranked[j].score
                    /\ ranked[i].score = ranked[j].score
                         => ranked[i].rule < ranked[j].rule

\* C6 witness: a ranked list with a tie and with a real reordering.
C6_Witness ==
    /\ pc = "matches"
    /\ \E i, j \in 1..Len(ranked) :
         i < j /\ ranked[i].score = ranked[j].score
    /\ \E i, j \in 1..Len(ranked) :
         i < j /\ ranked[i].rule > ranked[j].rule

(* C7 as stated: the hint string has exactly                               *)
(* ((pos + 1) rounded up to a multiple of 10) - pos spaces before the      *)
(* listing.                                                                *)
C7_PaddingAsStated ==
    (pc = "hint" /\ IsSome(hintOut))
      => LeadingSpaces(Unwrap(hintOut), 1) = RoundedUp(pos + 1) - pos

(* C7 amended: the hint string has exactly                                 *)
(* ((pos + 1) rounded up to a multiple of 10) - pos + 1 spaces before the  *)
(* opening parenthesis of the listing: the literal space of the format     *)
(* string and then the padding.                                            *)
C7_PaddingPlusOne ==
    (pc = "hint" /\ IsSome(hintOut))
      => /\ LeadingSpaces(Unwrap(hintOut), 1) = RoundedUp(pos + 1) - pos + 1
         /\ Unwrap(hintOut)[LeadingSpaces(Unwrap(hintOut), 1) + 1].ch = "("

\* C7 witness: a hint with the cursor just before a multiple of 10, beyond
\* the first one.
C7_Witness ==
    /\ pc = "hint"
    /\ IsSome(hintOut)
    /\ pos = 19
    /\ LeadingSpaces(Unwrap(hintOut), 1) = 2

(* C8: the hint lists the first min(10, n) entries of the ranked list, in  *)
(* ranked order and each once; with an empty ranked list there is no hint. *)
C8_HintListsTopTen ==
    (pc = "hint")
      => IF Len(ranked) = 0 THEN hintOut = None
         ELSE /\ IsSome(hintOut)
              /\ ListedNames(Unwrap(hintOut))
                   = [k \in 1..Min(HintLimit, Len(ranked)) |-> rules[ranked[k].rule].name]

\* C8 witness: more than 10 rules match and the hint lists 10 names.
C8_Witness ==
    /\ pc = "hint"
    /\ Len(ranked) > HintLimit
    /\ IsSome(hintOut)
    /\ Len(ListedNames(Unwrap(hintOut))) = HintLimit
    /\ Len(line) > 0

(* C9 as stated: for a non-empty query every entry of matches has as many  *)
(* positions as the query has characters, strictly increasing, each an     *)
(* index into the rule's name, selecting characters equal to the query's.  *)
C9_PositionsCaseSensitive ==
    (pc \in {"matches", "hint"} /\ Len(line) > 0)
      => \A e \in 1..Len(ranked) :
           LET name == rules[ranked[e].rule].name
               ix == ranked[e].indices
           IN /\ Len(ix) = Len(line)
              /\ \A k \in 1..Len(ix) :
                   /\ ix[k] \in 0..(Len(name) - 1)
                   /\ k > 1 => ix[k - 1] < ix[k]
                   /\ name[ix[k] + 1] = line[k]

(* C9 amended: as stated, except that the selected characters equal the    *)
(* query's characters exactly when the query contains an uppercase         *)
(* character, and up to ASCII case when it contains none; a rule whose     *)
(* name does not contain the query as a subsequence under that comparison  *)
(* is not in the list.                                                     *)
C9_PositionsSmartCase ==
    (pc \in {"matches", "hint"} /\ Len(line) > 0)
      => LET exact == \E k \in 1..Len(line) : line[k] = "A"
             Same(c, d) == c = d \/ (~exact /\ {c, d} = {"a", "A"})
         IN \A e \in 1..Len(ranked) :
              LET name == rules[ranked[e].rule].name
                  ix == ranked[e].indices
              IN /\ Len(ix) = Len(line)
                 /\ \A k \in 1..Len(ix) :
                      /\ ix[k] \in 0..(Len(name) - 1)
                      /\ k > 1 => ix[k - 1] < ix[k]
                      /\ Same(name[ix[k] + 1], line[k])

\* C9 witness: a two-character query ranks a rule through a gap and leaves
\* another rule of the catalog out.
C9_Witness ==
    /\ pc = "matches"
    /\ Len(line) = 2
    /\ Len(ranked) > 0
    /\ Len(ranked) < Len(rules)
    /\ \E e \in 1..Len(ranked) : ranked[e].indices = <<0, 2>>

(* C10: for a submitted line without whitespace the rule best_match        *)
(* dispatches is the catalog entry of the first candidate of the hint, and *)
(* best_match returns None exactly when there is no hint.                  *)
C10_HintAgreesWithDispatch ==
    (pc \in {"Running", "Panicked"} /\ NoWhitespace(line))
      => IF IsSome(rule)
           THEN /\ IsSome(hintOut)
                /\ Len(ranked) > 0
                /\ ranked[1].rule = Unwrap(rule)
                /\ GreenChars(Unwrap(hintOut), 1) = rules[Unwrap(rule)].name
           ELSE hintOut = None /\ Len(ranked) = 0

\* C10 witness: a dispatched one-token line whose best score is shared by
\* two rules behind a rule of a smaller score.
C10_Witness ==
    /\ pc = "Running"
    /\ NoWhitespace(line)
    /\ Len(line) > 0
    /\ Len(ranked) > 2
    /\ ranked[1].score = ranked[2].score
    /\ ranked[1].rule > 1
    /\ IsSome(rule)

====
